---- MODULE Spec2Model ----
\* Verification model of the hill-climbing splitter (splitter.py) and of the
\* part of the rolling stock model (stock.py) it computes with.
\*
\* Numbers.  The program computes with floats; the model computes with exact
\* rationals kept as integers over a common positive denominator (see
\* starting_force and net_force_capacity).  The splitters only add forces and
\* test "capacity + sum > 0", so a positive common factor changes no decision.
\*
\* Values.  A function result is a record [tag, val]: tag "tuple" carries the
\* returned tuple in val; tag "None" is Python's None; any other tag is the
\* name of the exception the call raised.
EXTENDS Integers, Sequences, FiniteSets, TLC

VARIABLES
    pc,               \* which call the run has made ("start" before it)
    capacity,         \* splitters: head force capacity
    cut,              \* splitters: per unit forces of the cut
    max_parts,        \* smartsplit: part budget of the call
    collect_net,      \* fastsplit / compute_split: the flag of the call
    result,           \* value the call returned, or the exception it raised
    power,            \* compute_split / split_to_trips: the power, a train
    train,            \* compute_split / split_to_trips: the cut, a train
    grade,            \* compute_split: grade of the hill
    max_power,        \* compute_split: power ratio (numerator over PowerDen)
    split,            \* materialization: the splitting sequence
    collect_tractive, \* split_to_trips: the flag of the call
    subcuts,          \* list(split_to_subcuts(cut, split))
    trips,            \* trips the consumer has received so far
    it                \* state of the lazy iterator split_to_trips returned

vars == <<pc, capacity, cut, max_parts, collect_net, result, power, train,
          grade, max_power, split, collect_tractive, subcuts, trips, it>>

-----------------------------------------------------------------------------
\* Bounds of the model.

MaxLen == 3      \* longest cut of forces given to a splitter
MaxForce == 2    \* forces of the units are in -MaxForce..MaxForce
MaxCap == 2      \* capacities are in 1..MaxCap
MaxTrain == 3    \* longest train given to compute_split / materialization
PowerDen == 2    \* max_power ranges over 1/PowerDen .. PowerDen/PowerDen

-----------------------------------------------------------------------------
\* Results.

None == [tag |-> "None", val |-> <<>>]
Tuple(s) == [tag |-> "tuple", val |-> s]
Raised(e) == [tag |-> e, val |-> <<>>]
NotCalled == [tag |-> "not called", val |-> <<>>]

-----------------------------------------------------------------------------
\* Python built-ins used by the code.

\* cut[:n]
take(s, n) == SubSeq(s, 1, n)

\* cut[n:]
drop(s, n) == SubSeq(s, n + 1, Len(s))

RECURSIVE sum(_)
sum(s) == IF s = <<>> THEN 0 ELSE Head(s) + sum(Tail(s))

RECURSIVE max(_)
max(s) ==
    IF Len(s) = 1 THEN s[1]
    ELSE LET m == max(Tail(s)) IN IF s[1] >= m THEN s[1] ELSE m

-----------------------------------------------------------------------------
\* fastsplit (splitter.py)

\* positives with the comparison turned round: collects the negative forces
RECURSIVE positives_negated(_)
positives_negated(s) ==
    IF s = <<>> THEN 0
    ELSE (IF Head(s) < 0 THEN Head(s) ELSE 0) + positives_negated(Tail(s))

\* sum(x for x in cut[:this_len] if x>0)
RECURSIVE positives(_)
positives(s) ==
    IF s = <<>> THEN 0
    ELSE (IF Head(s) > 0 THEN Head(s) ELSE 0) + positives(Tail(s))

\* for_this_len with ">= 0" for "> 0"
RECURSIVE for_this_len_nonstrict(_, _, _)
for_this_len_nonstrict(cap, c, this_len) ==
    IF this_len <= 0 THEN 0
    ELSE IF cap + sum(take(c, this_len)) >= 0 THEN this_len
    ELSE for_this_len_nonstrict(cap, c, this_len - 1)

\* for_this_len trying the shortest length first: range(1, len(cut) + 1)
for_this_len_shortest(cap, c, this_len) ==
    LET ok == {l \in 1..this_len : cap + sum(take(c, l)) > 0} IN
    IF ok = {} THEN 0 ELSE CHOOSE l \in ok : \A k \in ok : l <= k

\* for_this_len never trying the whole cut: range(len(cut) - 1, 0, -1)
for_this_len_skip_whole(cap, c, this_len) ==
    LET ok == {l \in 1..(this_len - 1) : cap + sum(take(c, l)) > 0} IN
    IF ok = {} THEN 0 ELSE CHOOSE l \in ok : \A k \in ok : l >= k

\* for this_len in range(len(cut), 0, -1): the first this_len whose prefix
\* is pullable; 0 stands for the loop running into its else branch.
RECURSIVE for_this_len(_, _, _)
for_this_len(cap, c, this_len) ==
    IF this_len <= 0 THEN 0
    ELSE IF cap + sum(take(c, this_len)) > 0 THEN this_len
    ELSE for_this_len(cap, c, this_len - 1)

\* while len(cut) > 0: ... ; return tuple(splits)
RECURSIVE fastsplit_while(_, _, _, _)
fastsplit_while(cap, c, collect, splits) ==
    IF ~(Len(c) > 0) THEN Tuple(splits)
    ELSE LET this_len == for_this_len(cap, c, Len(c)) IN
         IF this_len = 0 THEN None
         ELSE fastsplit_while(
                  IF collect THEN cap + positives(take(c, this_len)) ELSE cap,
                  drop(c, this_len), collect, Append(splits, this_len))

fastsplit(cap, c, collect) ==
    IF ~(cap > 0) THEN Raised("AssertionError")
    ELSE fastsplit_while(cap, c, collect, <<>>)

-----------------------------------------------------------------------------
\* smartsplit (splitter.py)

\* for removed in reversed(this_cut): this_len -= 1; if removed > 0: break
RECURSIVE remove_provider(_, _)
remove_provider(this_cut, this_len) ==
    IF this_cut = <<>> THEN this_len
    ELSE IF this_cut[Len(this_cut)] > 0 THEN this_len - 1
    ELSE remove_provider(take(this_cut, Len(this_cut) - 1), this_len - 1)

\* remainder_budget one too tight
remainder_budget_tight(best_split_len) == best_split_len - 3

\* budget of the recursive call
remainder_budget(best_split_len) == best_split_len - 2

RECURSIVE smartsplit(_, _, _)
RECURSIVE smartsplit_while(_, _, _, _, _)

\* while this_len > 0: ... ; return best_split
smartsplit_while(cap, c, best_split, best_split_len, this_len) ==
    IF ~(this_len > 0) THEN best_split
    ELSE
      LET this_cut == take(c, this_len) IN
      IF cap + sum(this_cut) > 0
      THEN
        LET rest == smartsplit(cap, drop(c, this_len),
                               remainder_budget(best_split_len)) IN
        IF rest # None
        THEN
          LET found == <<this_len>> \o rest.val
              better == Len(found) < best_split_len
              new_len == IF better THEN Len(found) ELSE best_split_len
          IN  IF better /\ new_len = 1 THEN Tuple(found)
              ELSE smartsplit_while(cap, c,
                       IF better THEN Tuple(found) ELSE best_split,
                       new_len, remove_provider(this_cut, this_len))
        ELSE smartsplit_while(cap, c, best_split, best_split_len, this_len - 1)
      ELSE smartsplit_while(cap, c, best_split, best_split_len, this_len - 1)

smartsplit(cap, c, parts) ==
    IF ~(cap > 0) THEN Raised("AssertionError")
    ELSE IF Len(c) = 0 THEN Tuple(<<>>)
    ELSE IF parts <= 0 THEN None
    ELSE IF parts = 1
         THEN IF cap + sum(c) > 0 THEN Tuple(<<Len(c)>>) ELSE None
    ELSE smartsplit_while(cap, c, None, parts + 1, Len(c))

-----------------------------------------------------------------------------
\* Inputs of the splitters.

RECURSIVE SeqsUpTo(_, _)
SeqsUpTo(S, n) ==
    IF n = 0 THEN {<<>>}
    ELSE LET shorter == SeqsUpTo(S, n - 1) IN
         shorter \cup {Append(s, x) : s \in {t \in shorter : Len(t) = n - 1}, x \in S}

Forces == (-MaxForce)..MaxForce
Capacities == 1..MaxCap

\* the two numeric scenarios the specification names
ScenarioInputs ==
    { <<10, <<-3, -3, -3, -3>> >>, <<1, <<-5>> >> }

SplitterInputs ==
    (Capacities \X SeqsUpTo(Forces, MaxLen)) \cup ScenarioInputs

PartBudgets(c) == (-1)..(Len(c) + 1)

InitSplit ==
    /\ pc = "start"
    /\ \E in \in SplitterInputs : capacity = in[1] /\ cut = in[2]
    /\ max_parts = 0
    /\ collect_net = FALSE
    /\ result = NotCalled
    /\ power = <<>>
    /\ train = <<>>
    /\ grade = [run |-> 1, rise |-> 0, hyp |-> 1]
    /\ max_power = PowerDen
    /\ split = <<>>
    /\ collect_tractive = FALSE
    /\ subcuts = <<>>
    /\ trips = <<>>
    /\ it = [started |-> FALSE, sc |-> 0, sc2 |-> 0, total |-> <<>>]

CallFastsplit ==
    /\ pc = "start"
    /\ \E collect \in BOOLEAN :
          /\ collect_net' = collect
          /\ result' = fastsplit(capacity, cut, collect)
    /\ pc' = "fastsplit"
    /\ UNCHANGED <<capacity, cut, max_parts, power, train, grade, max_power,
                   split, collect_tractive, subcuts, trips, it>>

CallSmartsplit ==
    /\ pc = "start"
    /\ \E parts \in PartBudgets(cut) :
          /\ max_parts' = parts
          /\ result' = smartsplit(capacity, cut, parts)
    /\ pc' = "smartsplit"
    /\ UNCHANGED <<capacity, cut, collect_net, power, train, grade, max_power,
                   split, collect_tractive, subcuts, trips, it>>

NextSplit == CallFastsplit \/ CallSmartsplit

SpecSplit == InitSplit /\ [][NextSplit]_vars

-----------------------------------------------------------------------------
\* Vocabulary of the properties of the splitters.

\* all sequences of positive integers that sum to n
RECURSIVE Compositions(_)
Compositions(n) ==
    IF n = 0 THEN {<<>>}
    ELSE UNION {{<<l>> \o r : r \in Compositions(n - l)} : l \in 1..n}

\* splits of a beginning of a cut of n units
PartialSplits(n) == UNION {Compositions(m) : m \in 0..n}

\* number of units before part i of split q
Offset(q, i) == sum(take(q, i - 1))

\* the units of part i of split q of c
Part(c, q, i) == SubSeq(c, Offset(q, i) + 1, Offset(q, i) + q[i])

IsSplitOf(q, n) ==
    /\ \A i \in 1..Len(q) : q[i] \in Nat /\ q[i] > 0
    /\ sum(q) = n

\* capacity on hand when part i starts: the initial capacity, plus under
\* collection the strictly positive forces of every earlier unit
CapacityAt(collect, q, i) ==
    IF collect THEN capacity + positives(take(cut, Offset(q, i))) ELSE capacity

Pullable(cap, units) == cap + sum(units) > 0

\* every part of q is pullable with the initial capacity
FeasibleSplit(q) == \A i \in 1..Len(q) : Pullable(capacity, Part(cut, q, i))

FeasibleSplits == {q \in Compositions(Len(cut)) : FeasibleSplit(q)}

IsTuple(r) == r.tag = "tuple"

\* C2: a split returned by fastsplit (either flag) or by smartsplit consists of
\* positive integers that sum to len(cut), and every part has a strictly
\* positive net force, under collection measured with the initial capacity
\* plus the strictly positive forces of all earlier parts.
C2_SplitCoversAndPulls ==
    (pc \in {"fastsplit", "smartsplit"} /\ IsTuple(result)) =>
        LET r == result.val
            collect == pc = "fastsplit" /\ collect_net
        IN  /\ IsSplitOf(r, Len(cut))
            /\ \A i \in 1..Len(r) :
                  Pullable(CapacityAt(collect, r, i), Part(cut, r, i))

\* fastsplit with collection returned two or more parts and a later part is
\* pullable only thanks to the collected forces
C2_Witness ==
    /\ pc = "fastsplit" /\ collect_net /\ IsTuple(result)
    /\ \E i \in 2..Len(result.val) :
          ~Pullable(capacity, Part(cut, result.val, i))

\* part i of q is the longest pullable beginning of what is left of the cut
LongestPullable(collect, q, i) ==
    LET rest == drop(cut, Offset(q, i))
        cap == CapacityAt(collect, q, i)
    IN  /\ q[i] \in 1..Len(rest)
        /\ Pullable(cap, take(rest, q[i]))
        /\ \A l \in 1..Len(rest) : Pullable(cap, take(rest, l)) => l <= q[i]

IsGreedy(collect, q) == \A i \in 1..Len(q) : LongestPullable(collect, q, i)

\* after the parts q units are left and no beginning of them is pullable
Stuck(collect, q) ==
    LET rest == drop(cut, sum(q))
        cap == CapacityAt(collect, q, Len(q) + 1)
    IN  /\ Len(rest) > 0
        /\ \A l \in 1..Len(rest) : ~Pullable(cap, take(rest, l))

\* C8: every part fastsplit records is the longest pullable beginning of the
\* remaining cut, the capacity growing only under collect_net by the positive
\* forces taken; it returns None exactly when at some step no beginning is
\* pullable; the empty cut gives the empty split; capacity 10 with
\* (-3,-3,-3,-3) and no collection gives (3,1); capacity 1 with (-5,) gives None.
C8_FastsplitIsGreedyPass ==
    pc = "fastsplit" =>
        /\ result.tag \in {"tuple", "None"}
        /\ IsTuple(result) =>
              /\ sum(result.val) = Len(cut)
              /\ IsGreedy(collect_net, result.val)
        /\ result = None <=>
              \E q \in PartialSplits(Len(cut)) :
                  IsGreedy(collect_net, q) /\ Stuck(collect_net, q)
        /\ cut = <<>> => result = Tuple(<<>>)
        /\ (capacity = 10 /\ cut = <<-3, -3, -3, -3>> /\ ~collect_net)
              => result = Tuple(<<3, 1>>)
        /\ (capacity = 1 /\ cut = <<-5>>) => result = None

\* fastsplit gave up after it had recorded a part
C8_Witness ==
    /\ pc = "fastsplit" /\ result = None
    /\ \E q \in PartialSplits(Len(cut)) :
          Len(q) > 0 /\ IsGreedy(collect_net, q) /\ Stuck(collect_net, q)

\* the statement of C1 for one call of smartsplit
SmartsplitIsMinimal ==
    /\ result.tag \in {"tuple", "None"}
    /\ result = None <=> ~ \E q \in FeasibleSplits : Len(q) <= max_parts
    /\ IsTuple(result) =>
          /\ result.val \in FeasibleSplits
          /\ \A q \in FeasibleSplits : Len(result.val) <= Len(q)
          /\ LET fast == fastsplit(capacity, cut, FALSE) IN
             IsTuple(fast) => Len(result.val) <= Len(fast.val)

C9_ShortcutLosesNothing ==
    (pc = "fastsplit" /\ collect_net /\ \A i \in 1..Len(cut) : cut[i] <= 0) =>
        LET smart == smartsplit(capacity, cut, Len(cut)) IN
        /\ result = None <=> smart = None
        /\ IsTuple(result) <=> IsTuple(smart)
        /\ IsTuple(result) => Len(result.val) = Len(smart.val)

\* a cut without positive forces that needs two or more parts
C9_Witness ==
    /\ pc = "fastsplit" /\ collect_net /\ \A i \in 1..Len(cut) : cut[i] <= 0
    /\ IsTuple(result) /\ Len(result.val) >= 2
    /\ \E i \in 1..Len(result.val) : result.val[i] >= 2

\* C10: when smartsplit with max_parts = len(cut) returns k parts, fastsplit
\* with collection returns a split too, of at most k parts.
C10_SmartsplitIsConservative ==
    (pc = "smartsplit" /\ max_parts = Len(cut) /\ IsTuple(result)) =>
        LET fast == fastsplit(capacity, cut, TRUE) IN
        /\ IsTuple(fast)
        /\ Len(fast.val) <= Len(result.val)

\* the exact search needs two or more parts, the greedy pass without collection
\* fails on the input and the greedy pass with collection gets through
C10_Witness ==
    /\ pc = "smartsplit" /\ max_parts = Len(cut) /\ IsTuple(result)
    /\ Len(result.val) >= 2
    /\ fastsplit(capacity, cut, FALSE) = None
    /\ IsTuple(fastsplit(capacity, cut, TRUE))

-----------------------------------------------------------------------------
\* Rolling stock (stock.py)

\* friction coefficient 0.004 = 1 / MuDen
MuDen == 250

\* Units: name, mass in pounds, tractive effort in pounds of force.
Car(n, m) == [name |-> n, mass |-> m, tractive_effort |-> 0]
TractiveCar(n, m, te) == [name |-> n, mass |-> m, tractive_effort |-> te]

\* Train.mass
RECURSIVE Train_mass(_)
Train_mass(t) == IF t = <<>> THEN 0 ELSE Head(t).mass + Train_mass(Tail(t))

\* Train.tractive_effort
RECURSIVE Train_tractive_effort(_)
Train_tractive_effort(t) ==
    IF t = <<>> THEN 0
    ELSE Head(t).tractive_effort + Train_tractive_effort(Tail(t))

\* starting_force with the sign of the grade lost: mass * (0.004 - grade) / ...
starting_force_downhill(x, g) == Train_mass(x) * (g.run - MuDen * g.rise)

\* A grade is the slope rise/run with run > 0, given with hyp, the exact root
\* of rise^2 + run^2, so that sqrt(grade*grade + 1) = hyp/run.
\*
\* starting_force: mass * (grade + 0.004) / sqrt(grade * grade + 1)
\*   = mass * (MuDen*rise + run) / (MuDen * hyp);
\* the value returned is the numerator, in units of 1/(MuDen * hyp).
\* Of the classes of stock.py only Train has the method, so x is a train.
starting_force(x, g) == Train_mass(x) * (MuDen * g.rise + g.run)

\* net_force_capacity with the operands of the subtraction exchanged
net_force_capacity_swapped(x, g, ratio) ==
    Train_mass(x) * (MuDen * g.rise + g.run) * PowerDen
        - Train_tractive_effort(x) * ratio * (MuDen * g.hyp)

\* net_force_capacity: x.tractive_effort * max_power - x.starting_force(grade)
\* with max_power = ratio/PowerDen, in units of 1/(PowerDen * MuDen * hyp).
net_force_capacity(x, g, ratio) ==
    Train_tractive_effort(x) * ratio * (MuDen * g.hyp)
        - starting_force(x, g) * PowerDen

-----------------------------------------------------------------------------
\* compute_split (splitter.py)

compute_split(pw, t, g, ratio, collect) ==
    LET p == net_force_capacity(pw, g, ratio)
        c == [i \in 1..Len(t) |-> net_force_capacity(t[i], g, ratio)]
    IN  IF Len(c) = 0 THEN Raised("ValueError")   \* max(()) raises
        ELSE IF (max(c) <= 0) \/ (collect # FALSE)
             THEN fastsplit(p, c, TRUE)
             ELSE smartsplit(p, c, Len(t))

-----------------------------------------------------------------------------
\* Inputs of compute_split and of the materialization.

car == Car("car", 1000)
heavy == Car("heavy", 5000)
loco == TractiveCar("loco", 1000, 700)
switcher == TractiveCar("switcher", 1000, 10)
engine == TractiveCar("engine", 1000, 1500)

\* The power and every member of a cut are trains, the objects that have
\* starting_force: Train(car) is <<car>>.
Members == {<<car>>, <<heavy>>, <<loco>>}
Powers == {<<switcher>>, <<engine>>, <<engine, engine>>}

Level == [run |-> 1, rise |-> 0, hyp |-> 1]
Grades ==
    { Level,
      [run |-> 40, rise |-> 9, hyp |-> 41], [run |-> 40, rise |-> -9, hyp |-> 41],
      [run |-> 4, rise |-> 3, hyp |-> 5],   [run |-> 4, rise |-> -3, hyp |-> 5] }

PowerRatios == 1..PowerDen
Trains == SeqsUpTo(Members, MaxTrain)

InitCompute ==
    /\ pc = "start"
    /\ power \in Powers
    /\ train \in Trains
    /\ grade \in Grades
    /\ max_power \in PowerRatios
    /\ collect_net \in BOOLEAN
    /\ capacity = 0
    /\ cut = <<>>
    /\ max_parts = 0
    /\ result = NotCalled
    /\ split = <<>>
    /\ collect_tractive = FALSE
    /\ subcuts = <<>>
    /\ trips = <<>>
    /\ it = [started |-> FALSE, sc |-> 0, sc2 |-> 0, total |-> <<>>]

CallComputeSplit ==
    /\ pc = "start"
    /\ capacity' = net_force_capacity(power, grade, max_power)
    /\ cut' = [i \in 1..Len(train) |-> net_force_capacity(train[i], grade, max_power)]
    /\ result' = compute_split(power, train, grade, max_power, collect_net)
    /\ pc' = "compute_split"
    /\ UNCHANGED <<max_parts, collect_net, power, train, grade, max_power,
                   split, collect_tractive, subcuts, trips, it>>

NextCompute == CallComputeSplit

SpecCompute == InitCompute /\ [][NextCompute]_vars

-----------------------------------------------------------------------------
\* Properties of compute_split.

\* C3: for a power with net force capacity > 0 and every cut, the empty one
\* included, compute_split returns a tuple of positive integers that sum to
\* len(cut) (the empty tuple for the empty cut) or None, never anything else.
C3_AsStated ==
    (pc = "compute_split" /\ capacity > 0) =>
        /\ result = None \/ (IsTuple(result) /\ IsSplitOf(result.val, Len(train)))
        /\ train = <<>> => result = Tuple(<<>>)

\* C5: a split returned at max_power m is followed by a split at every
\* larger max_power, whichever splitter the forces select.
C5_MonotoneInMaxPower ==
    (pc = "compute_split" /\ Len(train) > 0 /\ IsTuple(result)) =>
        \A m \in PowerRatios :
            m > max_power =>
                IsTuple(compute_split(power, train, grade, m, collect_net))

\* the larger ratio turns a force positive, so that the call moves from
\* fastsplit to smartsplit
C5_Witness ==
    /\ pc = "compute_split" /\ Len(train) > 0 /\ IsTuple(result)
    /\ ~collect_net
    /\ max(cut) <= 0
    /\ \E m \in PowerRatios :
          /\ m > max_power
          /\ \E i \in 1..Len(train) : net_force_capacity(train[i], grade, m) > 0

Abs(x) == IF x < 0 THEN -x ELSE x

\* grade a is below grade b
GradeLess(a, b) == a.rise * b.run < b.rise * a.run

\* |a| < |b|
MagnitudeLess(a, b) == Abs(a.rise) * b.run < Abs(b.rise) * a.run

\* 1 / 0.004, the grade up to which starting_force grows with the grade
SteepestMonotone == [run |-> 1, rise |-> MuDen, hyp |-> 0]

-----------------------------------------------------------------------------
\* Split materialization (splitter.py)

\* itertools.accumulate(l2): running totals
RECURSIVE accumulate(_, _)
accumulate(l, total) ==
    IF l = <<>> THEN <<>>
    ELSE <<total + Head(l)>> \o accumulate(Tail(l), total + Head(l))

\* split_to_slices with every range starting at 0
split_to_slices_from_zero(sp) ==
    [i \in 1..Len(sp) |-> [start |-> 0, stop |-> sum(take(sp, i))]]

\* s = map(operator.sub, e2, l1); map(slice, s, e1)
split_to_slices(sp) ==
    LET e == accumulate(sp, 0)
        s == [i \in 1..Len(sp) |-> e[i] - sp[i]]
    IN  [i \in 1..Len(sp) |-> [start |-> s[i], stop |-> e[i]]]

Min(a, b) == IF a <= b THEN a ELSE b

\* Train.__getitem__ with a slice of non-negative indices: tuple slicing, which
\* clips the indices to the length
Train_getitem(t, sl) ==
    SubSeq(t, Min(sl.start, Len(t)) + 1, Min(sl.stop, Len(t)))

\* map(Train, map(cut.__getitem__, split_to_slices(split)))
split_to_subcuts(t, sp) ==
    LET sl == split_to_slices(sp) IN
    [i \in 1..Len(sp) |-> Train_getitem(t, sl[i])]

\* Train.__add__: a longer train
Train_add(a, b) == a \o b

\* names class Train defines (stock.py, class Train and its base Sequence)
TrainAttributes ==
    { "__init__", "__getitem__", "__iter__", "__len__", "__add__", "__mul__",
      "mass", "tractive_effort", "flat_iter", "__repr__", "starting_force",
      "starting_power", "spare_capacity", "maximum_grade",
      "__contains__", "__reversed__", "index", "count" }

\* operator.methodcaller(name)(train): the attribute lookup fails for a name
\* the class does not define.  tractive_units is the only name looked up.
methodcaller(name, t) ==
    IF name \in TrainAttributes THEN Tuple(t) ELSE Raised("AttributeError")

Splits(t) == Compositions(Len(t))

InitTrips ==
    /\ pc = "start"
    /\ power \in Powers
    /\ train \in Trains
    /\ split \in Splits(train)
    /\ collect_tractive \in BOOLEAN
    /\ capacity = 0
    /\ cut = <<>>
    /\ max_parts = 0
    /\ collect_net = FALSE
    /\ result = NotCalled
    /\ grade = Level
    /\ max_power = PowerDen
    /\ subcuts = <<>>
    /\ trips = <<>>
    /\ it = [started |-> FALSE, sc |-> 0, sc2 |-> 0, total |-> <<>>]

\* list(split_to_subcuts(cut, split))
ListSubcuts ==
    /\ pc = "start"
    /\ subcuts' = split_to_subcuts(train, split)
    /\ pc' = "subcuts"
    /\ UNCHANGED <<capacity, cut, max_parts, collect_net, result, power, train,
                   grade, max_power, split, collect_tractive, trips, it>>

\* split_to_trips(power, cut, split, collect_tractive): builds the lazy
\* iterator; nothing is consumed yet
CallSplitToTrips ==
    /\ pc = "start"
    /\ pc' = "trips"
    /\ it' = [started |-> FALSE, sc |-> 0, sc2 |-> 0, total |-> <<>>]
    /\ trips' = <<>>
    /\ UNCHANGED <<capacity, cut, max_parts, collect_net, result, power, train,
                   grade, max_power, split, collect_tractive, subcuts>>

\* One next() of the consumer on map(operator.add, pw, sc).
\*   pw: with collect_tractive, accumulate(tu, initial=power) gives power first
\*   and afterwards adds the next element of tu, which calls tractive_units on
\*   the next subcut read through sc2; otherwise repeat(power).
\*   sc: the next subcut.
\* it.sc and it.sc2 count the subcuts read through the two tee branches,
\* it.started tells that accumulate has given its initial value and it.total
\* is its running total.
NextTrip ==
    /\ pc = "trips"
    /\ LET sub == split_to_subcuts(train, split)
           first == ~collect_tractive \/ ~it.started
           tu_end == ~first /\ it.sc2 >= Len(sub)
           tu == IF first \/ tu_end THEN Tuple(<<>>)
                 ELSE methodcaller("tractive_units", sub[it.sc2 + 1])
           pw == IF first THEN power ELSE Train_add(it.total, tu.val)
           read == [it EXCEPT !.started = TRUE, !.total = pw,
                              !.sc2 = IF first THEN @ ELSE @ + 1]
       IN  IF tu_end
           THEN /\ pc' = "exhausted"
                /\ UNCHANGED <<trips, it>>
           ELSE IF ~IsTuple(tu)
           THEN /\ pc' = tu.tag
                /\ it' = [it EXCEPT !.sc2 = @ + 1]
                /\ UNCHANGED trips
           ELSE IF it.sc >= Len(sub)
           THEN /\ pc' = "exhausted"
                /\ it' = read
                /\ UNCHANGED trips
           ELSE /\ pc' = "trips"
                /\ it' = [read EXCEPT !.sc = @ + 1]
                /\ trips' = Append(trips, Train_add(pw, sub[it.sc + 1]))
    /\ UNCHANGED <<capacity, cut, max_parts, collect_net, result, power, train,
                   grade, max_power, split, collect_tractive, subcuts>>

NextTrips == ListSubcuts \/ CallSplitToTrips \/ NextTrip

SpecTrips == InitTrips /\ [][NextTrips]_vars

-----------------------------------------------------------------------------
\* Properties of the materialization.

RECURSIVE Concat(_)
Concat(ss) == IF ss = <<>> THEN <<>> ELSE Head(ss) \o Concat(Tail(ss))

\* C7: split_to_slices gives one range per part, in order, the first starting
\* at 0, each next starting where the previous ended, range i of length
\* split[i]; the subcuts are those stretches of the cut in the original order
\* and put together again give the cut.
C7_SubcutsPartitionTheCut ==
    pc = "subcuts" =>
        LET sl == split_to_slices(split) IN
        /\ Len(sl) = Len(split)
        /\ \A i \in 1..Len(sl) :
              /\ sl[i].start = (IF i = 1 THEN 0 ELSE sl[i - 1].stop)
              /\ sl[i].stop - sl[i].start = split[i]
        /\ Len(subcuts) = Len(split)
        /\ \A i \in 1..Len(subcuts) :
              subcuts[i] = [j \in 1..split[i] |-> train[sl[i].start + j]]
        /\ Concat(subcuts) = train

\* a cut of different units in three parts
C7_Witness ==
    /\ pc = "subcuts" /\ Len(subcuts) = 3
    /\ train[1] # train[2] /\ train[2] # train[3]

\* C4: with forward collection and a split of k parts, iterating the result
\* gives exactly k trips in order, trip i being the power of that trip followed
\* by subcut i, the power of the first trip being the original power and every
\* later one beginning with the original power.
C4_AsStated ==
    (collect_tractive /\ pc \in {"exhausted", "AttributeError"}) =>
        LET sub == split_to_subcuts(train, split) IN
        /\ pc = "exhausted"
        /\ Len(trips) = Len(split)
        /\ \A i \in 1..Len(trips) :
              /\ take(trips[i], Len(power)) = power
              /\ drop(trips[i], Len(trips[i]) - Len(sub[i])) = sub[i]
              /\ i = 1 => trips[i] = Train_add(power, sub[i])

====
